---- MODULE Spec2Model ----
(***************************************************************************)
(* ccls-sim (src/main.rs): enumeration of the outcomes of the unplayed     *)
(* matches of a tournament, ranking of every outcome and aggregation of    *)
(* the top placements.                                                     *)
(*                                                                         *)
(* Names are modelled as positive integers (their order is the order of    *)
(* the strings).  The state is the state of main() after read_players and  *)
(* read_matches returned: the player map, the sorted match list and the    *)
(* options.  All u8 arithmetic is done modulo 2^8 and all usize shifts     *)
(* with the shift amount masked to 6 bits, as a build without overflow     *)
(* checks does it; a build with overflow checks panics instead.  Which of  *)
(* the two the program is, is fixed when the run starts.                   *)
(***************************************************************************)
EXTENDS Integers, Sequences, FiniteSets, TLC

VARIABLES
    overflow_checks, \* TRUE: the build panics on arithmetic overflow (debug)
    players,         \* main: players, the persistent HashMap name -> Player
    matches,         \* main: matches, the sorted Vec of (player1, player2)
    top_ranks,       \* opts.top_ranks
    simulation_count,\* opts.simulation_count, [some |-> BOOLEAN, v |-> Nat]
    pc,              \* "start", "loop", "done", "panicked"
    simulations,     \* main: simulations
    i,               \* main: the loop variable of `for i in 0..simulations`
    panic,           \* the panic that ended the run, "none" while there is none
    calls,           \* history: the iteration argument of every simulate call
    hist,            \* history: per simulate call, the (winner, loser) of every match
    snaps,           \* last simulate call: players_copy before match 1, after match 1, ...
    ovf,             \* last simulate call: did a u8 increment / a u8 sum overflow
    ranking,         \* last simulate call: names of `ranking` after sort_by
    loaded,          \* history: the player map as read_players returned it
    players2         \* SpecPair: the player map of a second run on the same inputs

vars == <<overflow_checks, players, matches, top_ranks, simulation_count, pc,
          simulations, i, panic, calls, hist, snaps, ovf, ranking,
          loaded, players2>>

----------------------------------------------------------------------------
(* Bounds of the model *)

MaxPlayers == 3      \* registered players are the names 1..P, P <= MaxPlayers
MaxM == 2            \* length of the short match lists
PairPool == 3        \* short match lists are drawn from the first PairPool pairs
MaxCap == 3          \* largest value of --simulation-count
NumNames == 12       \* names that can occur in a match or an opponent list

(* Program constants *)

UsizeBits == 64      \* width of usize, the type of `1 << matches.len()`
U8Mod == 256         \* 2^8: wins, losses, opp_wins, opp_losses are u8

----------------------------------------------------------------------------
(* Generic helpers *)

Min(a, b) == IF a <= b THEN a ELSE b

Perms(S) ==
    {s \in [1..Cardinality(S) -> S] : \A a \in S : \E k \in DOMAIN s : s[k] = a}

Count(x, s) == Cardinality({k \in DOMAIN s : s[k] = x})

RECURSIVE SubSeqs(_, _)
\* the subsequences of s (order kept) of length at most n
SubSeqs(s, n) ==
    IF s = <<>> \/ n = 0 THEN {<<>>}
    ELSE SubSeqs(Tail(s), n) \cup {<<Head(s)>> \o t : t \in SubSeqs(Tail(s), n - 1)}

----------------------------------------------------------------------------
(* Inputs: what read_players and read_matches can return *)

\* the opponent columns of the row of player n: two other registered names
\* o1, o2 (registered when the map is full) and the unregistered names
\* NumNames - 1 and NumNames
Opp1(n) == (n % MaxPlayers) + 1
Opp2(n) == ((n + 1) % MaxPlayers) + 1

\* RawPlayer rows of player n: the u8 columns and the four opponents
RawRows(n) ==
    << [wins |-> 1, losses |-> 0, opp_wins |-> 3, opp_losses |-> 1,
        opponents |-> <<Opp1(n), Opp2(n), Opp1(n), NumNames>>],
       [wins |-> 0, losses |-> 0, opp_wins |-> 0, opp_losses |-> 0,
        opponents |-> <<Opp1(n), NumNames - 1, NumNames, NumNames>>],
       [wins |-> 1, losses |-> 255, opp_wins |-> 200, opp_losses |-> 100,
        opponents |-> <<Opp2(n), Opp1(n), NumNames - 1, NumNames>> ] >>

\* Player::new
Player_new(name, data) ==
    [name |-> name, wins |-> data.wins, losses |-> data.losses,
     opp_wins |-> data.opp_wins, opp_losses |-> data.opp_losses,
     opponents |-> data.opponents, placements |-> <<>>]

\* read_players: a map keyed by name (the registered names are 1..P), each
\* player made from one of its rows
read_players(P) ==
    { [n \in 1..P |-> Player_new(n, RawRows(n)[row[n]])] :
        row \in [1..P -> DOMAIN RawRows(1)] }

RECURSIVE PairsUpTo(_)
\* every pair (greater name, smaller name) over the names 1..n, sorted
PairsUpTo(n) ==
    IF n < 2 THEN <<>> ELSE PairsUpTo(n - 1) \o [k \in 1..(n - 1) |-> <<n, k>>]

SortedPairs == PairsUpTo(NumNames)

\* read_matches: canonical pairs, deduplicated and sorted.  The short lists
ShortMatches == SubSeqs(SubSeq(SortedPairs, 1, PairPool), MaxM)

\* and the two lists as long as usize is wide, and one longer
WideMatches ==
    {SubSeq(SortedPairs, 1, UsizeBits), SubSeq(SortedPairs, 1, UsizeBits + 1)}

\* Option<usize>
None == [some |-> FALSE, v |-> 0]
Some(n) == [some |-> TRUE, v |-> n]

----------------------------------------------------------------------------
(* Integer arithmetic of the program *)

\* x reduced to the integer type with modulus m; m = 0 is the unbounded
\* integers (used to state what fits, never by the program)
Wrap(x, m) == IF m = 0 THEN x ELSE x % m

\* `1 << n` on usize overflows when the shift amount reaches the width
ShlOverflows(n) == n >= UsizeBits

\* `1 << n` on usize without overflow checks: the amount is masked.
\* (Every list of the model has Len % UsizeBits <= 30.)
Shl1(n) == 2 ^ (n % UsizeBits)

\* `iteration & (1 << matchnum) == 0` without overflow checks.
\* (iteration < 2^30 in every state of the model, so the bits from 31 on are 0.)
BitIsZero(iteration, matchnum) ==
    LET sh == matchnum % UsizeBits
    IN  IF sh > 30 THEN TRUE ELSE (iteration \div (2 ^ sh)) % 2 = 0

----------------------------------------------------------------------------
(* Player *)

\* add_placement: *self.placements.entry(place).or_insert(0) += 1
add_placement(p, place) ==
    IF place \in DOMAIN p.placements
    THEN [p EXCEPT !.placements[place] = @ + 1]
    ELSE [p EXCEPT !.placements = (place :> 1) @@ @]

\* players_copy.entry(q).and_modify(|e| e.f += 1) on the snapshot state
\* s = [pl: the map, ovf: has an increment overflowed]; no entry, no change
Bump(s, q, f, m) ==
    IF q \in DOMAIN s.pl
    THEN [s EXCEPT !.pl[q][f] = Wrap(@ + 1, m),
                   !.ovf = @ \/ (m # 0 /\ s.pl[q][f] + 1 >= m)]
    ELSE s

add_win(s, q, m) == Bump(s, q, "wins", m)

\* a slip in add_loss: the new losses computed from wins
add_loss_FromWins(s, q, m) ==
    IF q \in DOMAIN s.pl
    THEN [s EXCEPT !.pl[q].losses = Wrap(s.pl[q].wins + 1, m)]
    ELSE s

add_loss(s, q, m) == Bump(s, q, "losses", m)
add_opponent_win(s, q, m) == Bump(s, q, "opp_wins", m)
add_opponent_loss(s, q, m) == Bump(s, q, "opp_losses", m)

\* what and_modify's closure appends to opp_wins / opp_losses: the
\* opponents of the entry, nothing when there is no entry
OpponentsOf(s, q) == IF q \in DOMAIN s.pl THEN s.pl[q].opponents ELSE <<>>

RECURSIVE ForOpponentWins(_, _, _)
ForOpponentWins(s, list, m) ==
    IF list = <<>> THEN s
    ELSE ForOpponentWins(add_opponent_win(s, Head(list), m), Tail(list), m)

RECURSIVE ForOpponentLosses(_, _, _)
ForOpponentLosses(s, list, m) ==
    IF list = <<>> THEN s
    ELSE ForOpponentLosses(add_opponent_loss(s, Head(list), m), Tail(list), m)

\* the body of simulate's match loop after the winner is chosen
ApplyMatch(s, winner, loser, m) ==
    LET opp_wins == OpponentsOf(s, winner)
        s1 == ForOpponentWins(add_win(s, winner, m), opp_wins, m)
        opp_losses == OpponentsOf(s1, loser)
    IN  ForOpponentLosses(add_loss(s1, loser, m), opp_losses, m)

\* the (winner, loser) of match number matchnum (0-based) in an iteration
PickWinner(iteration, matchnum, matchplayers) ==
    IF BitIsZero(iteration, matchnum)
    THEN <<matchplayers[1], matchplayers[2]>>
    ELSE <<matchplayers[2], matchplayers[1]>>

\* one iteration of simulate's loop over matches, for match number matchnum.
\* t is the run of the loop so far: snaps (the snapshot before each match and
\* after the last), picks (the pairs applied), ovf, panic.  A build with
\* overflow checks panics at the shift or at the increment that overflows.
MatchStep(t, iteration, ms, matchnum, m, chk) ==
    IF chk /\ ShlOverflows(matchnum) THEN [t EXCEPT !.panic = "shl"]
    ELSE
        LET wl == PickWinner(iteration, matchnum, ms[matchnum + 1])
            cur == [pl |-> t.snaps[Len(t.snaps)], ovf |-> FALSE]
            nxt == ApplyMatch(cur, wl[1], wl[2], m)
        IN  IF chk /\ nxt.ovf
            THEN [t EXCEPT !.panic = "add", !.ovf = TRUE]
            ELSE [snaps |-> Append(t.snaps, nxt.pl),
                  picks |-> Append(t.picks, wl),
                  ovf |-> t.ovf \/ nxt.ovf,
                  panic |-> "none"]

RECURSIVE MatchLoop(_, _, _, _, _, _, _)
\* simulate's loop over the matches numbered lo, lo + 1, ..., hi - 1, in this
\* order, ended by a panic.  (The range is halved, and the first half is
\* evaluated before the second is entered, to keep the evaluation shallow.)
MatchLoop(t, iteration, ms, lo, hi, m, chk) ==
    IF lo >= hi \/ t.panic # "none" THEN t
    ELSE IF hi = lo + 1 THEN MatchStep(t, iteration, ms, lo, m, chk)
    ELSE LET mid == (lo + hi) \div 2
             half == MatchLoop(t, iteration, ms, lo, mid, m, chk)
         IN  IF half.panic # "none" THEN half
             ELSE MatchLoop(half, iteration, ms, mid, hi, m, chk)

\* lines 231-261: clone the map and apply every match
Propagate(iteration, ms, pl, m, chk) ==
    MatchLoop([snaps |-> <<pl>>, picks |-> <<>>, ovf |-> FALSE, panic |-> "none"],
              iteration, ms, 0, Len(ms), m, chk)

----------------------------------------------------------------------------
(* Ranking *)

\* Ord::cmp on integers
cmp(a, b) == IF a < b THEN "Less" ELSE IF a > b THEN "Greater" ELSE "Equal"

\* Ordering::then
then(o1, o2) == IF o1 = "Equal" THEN o2 ELSE o1

\* Ordering::reverse
reverse(o) == IF o = "Less" THEN "Greater" ELSE IF o = "Greater" THEN "Less" ELSE o

\* does `p.opp_wins + p.opp_losses` overflow u8
SumOverflows(p) == p.opp_wins + p.opp_losses >= U8Mod

\* opponent_winrate: the f32 quotient of two integers below 2^8, kept as the
\* fraction num/den.  den = 0 with num > 0 is +inf, 0/0 is NaN.  Two such
\* fractions that differ are further apart than an f32 rounding error, so the
\* f32 values compare as the fractions do.
opponent_winrate(p) ==
    [num |-> p.opp_wins, den |-> (p.opp_wins + p.opp_losses) % U8Mod]

is_nan(r) == r.num = 0 /\ r.den = 0

\* f32::partial_cmp: None when either side is NaN
partial_cmp(r1, r2) ==
    IF is_nan(r1) \/ is_nan(r2) THEN "None"
    ELSE cmp(r1.num * r2.den, r2.num * r1.den)

\* rank_players; "None" stands for the panic of unwrap()
rank_players(p1, p2) ==
    LET p1_oppwr == opponent_winrate(p1)
        p2_oppwr == opponent_winrate(p2)
        o == partial_cmp(p1_oppwr, p2_oppwr)
    IN  IF o = "None" THEN "None" ELSE then(cmp(p1.wins, p2.wins), o)

\* the closure given to sort_by
SortCmp(p1, p2) == reverse(rank_players(p1, p2))

RECURSIVE InsertStable(_, _, _)
\* x put into the sorted sequence of names, behind everything not greater
InsertStable(sorted, x, pl) ==
    IF sorted = <<>> THEN <<x>>
    ELSE IF SortCmp(pl[x], pl[Head(sorted)]) = "Less" THEN <<x>> \o sorted
    ELSE <<Head(sorted)>> \o InsertStable(Tail(sorted), x, pl)

RECURSIVE sort_by(_, _)
\* slice::sort_by, a stable sort: equal elements keep the order they came in
sort_by(seq, pl) ==
    IF seq = <<>> THEN <<>>
    ELSE InsertStable(sort_by(SubSeq(seq, 1, Len(seq) - 1), pl), seq[Len(seq)], pl)

\* the panics the sort of a snapshot can end in.  With two or more players
\* every player is compared at least once, in an order that follows the
\* order of the slice.  A comparison computes both rates, where a build with
\* overflow checks panics on a sum that overflows, and then unwraps their
\* partial_cmp, which is None when a rate is NaN.
SortPanics(pl, chk) ==
    IF Cardinality(DOMAIN pl) < 2 THEN {}
    ELSE (IF chk /\ \E q \in DOMAIN pl : SumOverflows(pl[q]) THEN {"add"} ELSE {})
         \cup (IF \E q \in DOMAIN pl, q2 \in DOMAIN pl :
                    /\ q # q2
                    /\ is_nan(opponent_winrate(pl[q]))
                    /\ ~(chk /\ SumOverflows(pl[q2]))
               THEN {"unwrap"} ELSE {})

RECURSIVE Place_TakeOneMore(_, _, _, _)
\* a slip in Place: take(top_ranks + 1)
Place_TakeOneMore(pl, rk, rank, top) ==
    IF rank >= Len(rk) \/ rank > top THEN pl
    ELSE Place_TakeOneMore(IF rk[rank + 1] \in DOMAIN pl
                           THEN [pl EXCEPT ![rk[rank + 1]] = add_placement(@, rank + 1)]
                           ELSE pl,
                           rk, rank + 1, top)

RECURSIVE Place(_, _, _, _)
\* lines 265-269: ranking[rank..] taken up to top_ranks, placements added
Place(pl, rk, rank, top) ==
    IF rank >= Len(rk) \/ rank >= top THEN pl
    ELSE Place(IF rk[rank + 1] \in DOMAIN pl
               THEN [pl EXCEPT ![rk[rank + 1]] = add_placement(@, rank + 1)]
               ELSE pl,
               rk, rank + 1, top)

\* a slip in simulate: the placements are added to the entries of
\* players_copy and the copy is kept as the player map
RankAndPlace_InPlace(t, top, pl, ord, chk) ==
    LET players_copy == t.snaps[Len(t.snaps)]
        sp == IF t.panic # "none" THEN {t.panic} ELSE SortPanics(players_copy, chk)
        rk == IF sp = {} THEN sort_by(ord, players_copy) ELSE <<>>
    IN  [players |-> IF sp = {} THEN Place(players_copy, rk, 0, top) ELSE pl,
         panics |-> sp,
         picks |-> t.picks,
         snaps |-> t.snaps,
         ovf |-> [inc |-> t.ovf,
                  sum |-> t.panic = "none" /\ Cardinality(DOMAIN pl) >= 2
                          /\ \E q \in DOMAIN pl : SumOverflows(players_copy[q])],
         ranking |-> rk]

\* lines 262-269 of simulate: t is the run of the match loop on the clone of
\* pl, `ord` the order players_copy.values() iterates in, `chk` the build.
\* The result holds the new player map and what the call did.
RankAndPlace(t, top, pl, ord, chk) ==
    LET players_copy == t.snaps[Len(t.snaps)]
        sp == IF t.panic # "none" THEN {t.panic} ELSE SortPanics(players_copy, chk)
        rk == IF sp = {} THEN sort_by(ord, players_copy) ELSE <<>>
    IN  [players |-> IF sp = {} THEN Place(pl, rk, 0, top) ELSE pl,
         panics |-> sp,
         picks |-> t.picks,
         snaps |-> t.snaps,
         ovf |-> [inc |-> t.ovf,
                  sum |-> t.panic = "none" /\ Cardinality(DOMAIN pl) >= 2
                          /\ \E q \in DOMAIN pl : SumOverflows(players_copy[q])],
         ranking |-> rk]

----------------------------------------------------------------------------
(* The program *)

TopRanks == {MaxPlayers - 1, MaxPlayers + 1}
Caps == {None, Some(MaxCap)}

\* the state when read_players and read_matches have returned
Loaded(pl, ms, top, cap, chk) ==
    /\ overflow_checks = chk
    /\ players = pl
    /\ matches = ms
    /\ top_ranks = top
    /\ simulation_count = cap
    /\ pc = "start"
    /\ simulations = 0
    /\ i = 0
    /\ panic = "none"
    /\ calls = <<>>
    /\ hist = <<>>
    /\ snaps = <<>>
    /\ ovf = [inc |-> FALSE, sum |-> FALSE]
    /\ ranking = <<>>
    /\ loaded = pl
    /\ players2 = pl

\* every combination of inputs with a short match list
InitShort ==
    \E P \in 0..MaxPlayers, ms \in ShortMatches, top \in TopRanks, cap \in Caps,
       chk \in BOOLEAN :
        \E pl \in read_players(P) : Loaded(pl, ms, top, cap, chk)

\* the wide match lists, with two registered players
InitWide ==
    \E ms \in WideMatches, cap \in Caps, chk \in BOOLEAN :
        \E pl \in read_players(2) : Loaded(pl, ms, 2, cap, chk)

Init == InitShort \/ InitWide

\* main, lines 198-201: min(1 << matches.len(), simulation_count or usize::MAX)
ComputeSimulations ==
    /\ pc = "start"
    /\ IF overflow_checks /\ ShlOverflows(Len(matches))
       THEN /\ pc' = "panicked"
            /\ panic' = "shl"
            /\ UNCHANGED simulations
       ELSE /\ pc' = "loop"
            /\ simulations' = IF simulation_count.some
                              THEN Min(Shl1(Len(matches)), simulation_count.v)
                              ELSE Shl1(Len(matches))
            /\ UNCHANGED panic
    /\ UNCHANGED <<overflow_checks, players, matches, top_ranks, simulation_count,
                   i, calls, hist, snaps, ovf, ranking, loaded, players2>>

\* main, lines 202-204: one iteration of the loop, a whole call
\* simulate(i, opts.top_ranks, &matches, &mut players)
Simulate ==
    /\ pc = "loop"
    /\ i < simulations
    /\ \E t \in {Propagate(i, matches, players, U8Mod, overflow_checks)},
          ord \in Perms(DOMAIN players) :
         \E r \in {RankAndPlace(t, top_ranks, players, ord, overflow_checks)} :
             /\ players' = r.players
             /\ calls' = Append(calls, i)
             /\ hist' = Append(hist, r.picks)
             /\ snaps' = r.snaps
             /\ ovf' = r.ovf
             /\ ranking' = r.ranking
             /\ IF r.panics = {}
                THEN /\ i' = i + 1
                     /\ UNCHANGED <<pc, panic>>
                ELSE /\ pc' = "panicked"
                     /\ panic' \in r.panics
                     /\ UNCHANGED i
    /\ UNCHANGED <<overflow_checks, matches, top_ranks, simulation_count,
                   simulations, loaded, players2>>

\* main, lines 206-222: the loop is over, the report is written
Finish ==
    /\ pc = "loop"
    /\ i >= simulations
    /\ pc' = "done"
    /\ UNCHANGED <<overflow_checks, players, matches, top_ranks, simulation_count,
                   simulations, i, panic, calls, hist, snaps, ovf, ranking,
                   loaded, players2>>

Next == ComputeSimulations \/ Simulate \/ Finish

Spec == Init /\ [][Next]_vars

\* two runs of the program on the same inputs, side by side: each simulate
\* call of either run iterates its HashMap in an order of its own
SimulatePair ==
    /\ pc = "loop"
    /\ i < simulations
    /\ \E t \in {Propagate(i, matches, players, U8Mod, overflow_checks)},
          t2 \in {Propagate(i, matches, players2, U8Mod, overflow_checks)},
          ord \in Perms(DOMAIN players), ord2 \in Perms(DOMAIN players2) :
         \E r \in {RankAndPlace(t, top_ranks, players, ord, overflow_checks)},
            r2 \in {RankAndPlace(t2, top_ranks, players2, ord2, overflow_checks)} :
             /\ players' = r.players
             /\ players2' = r2.players
             /\ calls' = Append(calls, i)
             /\ hist' = Append(hist, r.picks)
             /\ snaps' = r.snaps
             /\ ovf' = r.ovf
             /\ ranking' = r.ranking
             /\ IF r.panics = {}
                THEN /\ i' = i + 1
                     /\ UNCHANGED <<pc, panic>>
                ELSE /\ pc' = "panicked"
                     /\ panic' \in r.panics
                     /\ UNCHANGED i
    /\ UNCHANGED <<overflow_checks, matches, top_ranks, simulation_count,
                   simulations, loaded>>

NextPair == ComputeSimulations \/ SimulatePair \/ Finish

\* the inputs of the two runs: a short match list, every outcome evaluated
InitPair ==
    \E P \in 0..MaxPlayers, ms \in ShortMatches, top \in TopRanks, chk \in BOOLEAN :
        \E pl \in read_players(P) : Loaded(pl, ms, top, None, chk)

SpecPair == InitPair /\ [][NextPair]_vars

----------------------------------------------------------------------------
(* What the claims speak of *)

\* the last simulate call applied every match
PropagationDone == calls # <<>> /\ Len(snaps) = Len(matches) + 1

\* the last simulate call sorted its snapshot
SortDone == PropagationDone /\ Len(ranking) = Cardinality(DOMAIN players)

\* the snapshot of the last simulate call after its last match
Final == snaps[Len(snaps)]

\* the indices 0, 1, ..., n-1 in increasing order
Indices(n) == [k \in 1..n |-> k - 1]

\* bit j of the number n (n < 2^30 in every state of the model)
BitOf(n, j) == IF j > 30 THEN 0 ELSE (n \div (2 ^ j)) % 2

\* the (winner, loser) pairs of outcome n as the specification defines them
PairsOf(n) ==
    [j \in 1..Len(matches) |->
        IF BitOf(n, j - 1) = 0 THEN <<matches[j][1], matches[j][2]>>
        ELSE <<matches[j][2], matches[j][1]>>]

RECURSIVE SumOver(_, _)
SumOver(S, f) ==
    IF S = {} THEN 0
    ELSE LET x == CHOOSE y \in S : TRUE IN f[x] + SumOver(S \ {x}, f)

\* placements[r] of a player, 0 when the key is absent
PlacedAt(p, r) == IF r \in DOMAIN p.placements THEN p.placements[r] ELSE 0

----------------------------------------------------------------------------
\* C1: when main has finished, simulate has been called exactly once for each
\* index 0, 1, ..., min(N, 2^M)-1, in increasing order (2^M without a cap).
\* For M > 30 the number 2^M exceeds every cap of the model, so the minimum
\* is the cap; without a cap no run of 2^M calls is followed to its end.
C1_EvaluatesMinCapPow ==
    pc = "done" =>
        LET M == Len(matches)
        IN  IF M <= 30
            THEN calls = Indices(IF simulation_count.some
                                 THEN Min(simulation_count.v, 2 ^ M) ELSE 2 ^ M)
            ELSE simulation_count.some => calls = Indices(simulation_count.v)

\* C2: every match applied by the last simulate call changed the snapshot by
\* exactly: winner.wins + 1, loser.losses + 1, q.opp_wins + the occurrences
\* of q among the winner's opponents, q.opp_losses + the occurrences of q
\* among the loser's opponents; nothing else, and no player added or removed.
DeltaExact(before, after, winner, loser) ==
    /\ DOMAIN after = DOMAIN before
    /\ \A q \in DOMAIN before :
        /\ after[q].wins = before[q].wins + (IF q = winner THEN 1 ELSE 0)
        /\ after[q].losses = before[q].losses + (IF q = loser THEN 1 ELSE 0)
        /\ after[q].opp_wins = before[q].opp_wins
              + (IF winner \in DOMAIN before
                 THEN Count(q, before[winner].opponents) ELSE 0)
        /\ after[q].opp_losses = before[q].opp_losses
              + (IF loser \in DOMAIN before
                 THEN Count(q, before[loser].opponents) ELSE 0)
        /\ after[q].name = before[q].name
        /\ after[q].opponents = before[q].opponents
        /\ after[q].placements = before[q].placements

C2_MatchDeltaExact ==
    calls # <<>> =>
        \A j \in 1..(Len(snaps) - 1) :
            DeltaExact(snaps[j], snaps[j + 1],
                       hist[Len(hist)][j][1], hist[Len(hist)][j][2])

\* C3: a snapshot with a player whose opp_wins + opp_losses is 0 never makes
\* the ranking fail: the sort completes and orders every player.
UndefinedRate(p) == p.opp_wins + p.opp_losses = 0

C3_UndefinedRateNeverFails ==
    (PropagationDone /\ \E q \in DOMAIN Final : UndefinedRate(Final[q]))
        => (panic # "unwrap" /\ SortDone)

\* C4: two runs on the same inputs end with the same placement histogram
\* for every player.
C4_SameHistograms ==
    pc = "done" =>
        \A q \in DOMAIN players : players[q].placements = players2[q].placements

\* C5: in the ranking of an outcome, a player at a rank r <= K and any player
\* behind it: the first has strictly more wins, or equal wins and an opponent
\* win rate opp_wins/(opp_wins+opp_losses) at least the other's.
RateAtLeast(p1, p2) ==
    p1.opp_wins * (p2.opp_wins + p2.opp_losses)
        >= p2.opp_wins * (p1.opp_wins + p1.opp_losses)

C5_StandingsOrdered ==
    SortDone =>
        \A a \in 1..Len(ranking), b \in 1..Len(ranking) :
            (a <= top_ranks /\ a < b) =>
                LET p1 == Final[ranking[a]]
                    p2 == Final[ranking[b]]
                IN  \/ p1.wins > p2.wins
                    \/ p1.wins = p2.wins /\ RateAtLeast(p1, p2)

\* C6: in every simulate call the winner and loser of match j are the first
\* and second listed player when bit j of the index is 0 and the other way
\* round when it is 1; and no two calls were given the same assignment.
C6_BitSelectsWinner ==
    /\ \A c \in 1..Len(hist) :
          \A j \in 1..Len(hist[c]) : hist[c][j] = PairsOf(calls[c])[j]
    /\ \A c \in 1..Len(hist), d \in 1..Len(hist) :
          (c # d /\ Len(hist[c]) = Len(matches) /\ Len(hist[d]) = Len(matches))
              => hist[c] # hist[d]

\* C7: after n evaluated outcomes, for every rank r in 1..min(K, P) the
\* placements[r] of all players sum to n and no player has a key outside
\* 1..min(K, P); and one evaluated outcome adds one to placements[r] of one
\* player per rank r in 1..min(K, P), each a different player, nothing else.
OneOutcomePlaced(old, new, n) ==
    \E f \in [1..n -> DOMAIN old] :
        /\ \A r1 \in 1..n, r2 \in 1..n : f[r1] = f[r2] => r1 = r2
        /\ \A q \in DOMAIN old :
              \A r \in (1..n) \cup DOMAIN old[q].placements \cup DOMAIN new[q].placements :
                  PlacedAt(new[q], r) =
                      PlacedAt(old[q], r) + (IF r <= n /\ f[r] = q THEN 1 ELSE 0)

C7_PlacementsState ==
    LET n == Min(top_ranks, Cardinality(DOMAIN players))
    IN  /\ \A r \in 1..n :
              SumOver(DOMAIN players, [q \in DOMAIN players |-> PlacedAt(players[q], r)]) = i
        /\ \A q \in DOMAIN players : DOMAIN players[q].placements \subseteq 1..n
        /\ \A q \in DOMAIN players : \A r \in DOMAIN players[q].placements :
              players[q].placements[r] >= 1

C7_PlacementsStep ==
    (i' = i + 1) =>
        /\ DOMAIN players' = DOMAIN players
        /\ OneOutcomePlaced(players, players',
                            Min(top_ranks, Cardinality(DOMAIN players)))

C7_PlacementCounters == []C7_PlacementsState /\ [][C7_PlacementsStep]_vars

C7_Witness ==
    /\ i = 2
    /\ Cardinality(DOMAIN players) = 3
    /\ top_ranks = 2
    /\ \E q \in DOMAIN players : PlacedAt(players[q], 1) = 2
    /\ \E q \in DOMAIN players : PlacedAt(players[q], 2) = 1 /\ PlacedAt(players[q], 1) = 0

\* C8: the persistent player map keeps its load-time keys and every player's
\* name, wins, losses, opp_wins, opp_losses and opponents; every snapshot
\* starts from these values.
SameRecord(p, p0) ==
    /\ p.name = p0.name
    /\ p.wins = p0.wins
    /\ p.losses = p0.losses
    /\ p.opp_wins = p0.opp_wins
    /\ p.opp_losses = p0.opp_losses
    /\ p.opponents = p0.opponents

C8_RegistryFrame ==
    /\ DOMAIN players = DOMAIN loaded
    /\ \A q \in DOMAIN loaded : SameRecord(players[q], loaded[q])
    /\ calls # <<>> =>
          /\ DOMAIN snaps[1] = DOMAIN loaded
          /\ \A q \in DOMAIN loaded : SameRecord(snaps[1][q], loaded[q])

C8_Witness ==
    /\ i >= 2
    /\ \E q \in DOMAIN players : players[q].placements # <<>>
    /\ \E q \in DOMAIN players : Final[q].wins # loaded[q].wins
    /\ \E j \in 1..Len(matches) : matches[j][1] \notin DOMAIN players
    /\ \E q \in DOMAIN players : \E k \in 1..4 :
          players[q].opponents[k] \notin DOMAIN players

\* C9: the pairs of the last outcome applied to its fresh snapshot in any
\* permutation of the match order give the wins, losses, opp_wins and
\* opp_losses that list order gave.  (Every permutation of a short list; of
\* a wide list the reversal and the rotations.)
RECURSIVE ApplyInOrder(_, _, _, _, _)
\* the pairs numbered perm[lo], ..., perm[hi] applied to s, one after the
\* other.  (The range is halved, and the first half is evaluated before the
\* second is entered, to keep the evaluation shallow.)
ApplyInOrder(s, pairs, perm, lo, hi) ==
    IF lo > hi THEN s
    ELSE IF lo = hi
    THEN ApplyMatch(s, pairs[perm[lo]][1], pairs[perm[lo]][2], U8Mod)
    ELSE LET mid == (lo + hi) \div 2
             half == ApplyInOrder(s, pairs, perm, lo, mid)
         IN  IF DOMAIN half.pl = DOMAIN s.pl
             THEN ApplyInOrder(half, pairs, perm, mid + 1, hi)
             ELSE half

PermsChecked(n) ==
    IF n <= MaxM + 1 THEN Perms(1..n)
    ELSE {[k \in 1..n |-> n + 1 - k]}
            \cup {[k \in 1..n |-> ((k + d - 1) % n) + 1] : d \in 1..(n - 1)}

C9_OrderIndependent ==
    PropagationDone =>
        \A perm \in PermsChecked(Len(matches)) :
            LET s == ApplyInOrder([pl |-> snaps[1], ovf |-> FALSE],
                                  PairsOf(calls[Len(calls)]), perm, 1, Len(perm))
            IN  \A q \in DOMAIN Final :
                    /\ s.pl[q].wins = Final[q].wins
                    /\ s.pl[q].losses = Final[q].losses
                    /\ s.pl[q].opp_wins = Final[q].opp_wins
                    /\ s.pl[q].opp_losses = Final[q].opp_losses

C9_Witness ==
    /\ PropagationDone
    /\ Len(matches) = 2
    /\ \E q \in DOMAIN Final :
          Final[q].wins = snaps[1][q].wins + 1 /\ Final[q].losses = snaps[1][q].losses + 1
    /\ \E q \in DOMAIN Final : Final[q].opp_wins >= snaps[1][q].opp_wins + 2

\* C10: if every counter of every player, counted in the integers, is at
\* most 255 after the propagation of the last outcome, then no u8 increment
\* of the call and no sum opp_wins + opp_losses of its ranking overflowed.
MathFinal ==
    LET t == Propagate(calls[Len(calls)], matches, snaps[1], 0, FALSE)
    IN  t.snaps[Len(t.snaps)]

FinalsFit ==
    \A q \in DOMAIN MathFinal :
        /\ MathFinal[q].wins < U8Mod
        /\ MathFinal[q].losses < U8Mod
        /\ MathFinal[q].opp_wins < U8Mod
        /\ MathFinal[q].opp_losses < U8Mod

C10_NoU8Overflow ==
    (calls # <<>> /\ FinalsFit) => (~ovf.inc /\ ~ovf.sum)

====
